---- MODULE Spec2Model ----
(***************************************************************************)
(* A model of the code reviewer: reviewer.py (CodeReviewService: the      *)
(* constructor, review, _build_prompt) and app.py (load_reviewer, main).  *)
(*                                                                         *)
(* Text is a sequence of tokens.  A token is one character of user text   *)
(* (Char) or one fixed literal of the source (a label, a fence, the       *)
(* preamble), so that formatting is concatenation and a prompt can be     *)
(* taken apart again.  User text never contains a literal token.          *)
(***************************************************************************)
EXTENDS Integers, Sequences, FiniteSets, TLC

VARIABLES env, svc, cache, last

vars == <<env, svc, cache, last>>

(***************************************************************************)
(* Bounds of the model.                                                    *)
(***************************************************************************)
MaxCodeLen == 4
MaxMetaLen == 1

(***************************************************************************)
(* Text.                                                                   *)
(***************************************************************************)
None == <<"<None>">>

NL == "\n"

Char == {"x", " ", NL}

Whitespace == {" ", NL}

RECURSIVE TextsUpTo(_)
TextsUpTo(n) ==
    IF n = 0 THEN {<<>>}
    ELSE LET shorter == TextsUpTo(n - 1)
         IN shorter \cup {Append(t, c) : t \in {s \in shorter : Len(s) = n - 1}, c \in Char}

\* Python truthiness of an Optional[str]: None and "" are false.
Truthy(s) == s # None /\ s # <<>>

\* a or b
Or(a, b) == IF Truthy(a) THEN a ELSE b

RECURSIVE lstrip(_)
lstrip(s) ==
    IF s = <<>> THEN <<>>
    ELSE IF Head(s) \in Whitespace THEN lstrip(Tail(s))
    ELSE s

RECURSIVE rstrip(_)
rstrip(s) ==
    IF s = <<>> THEN <<>>
    ELSE IF s[Len(s)] \in Whitespace THEN rstrip(SubSeq(s, 1, Len(s) - 1))
    ELSE s

strip_left_only(s) == lstrip(s)

\* str.strip()
strip(s) == rstrip(lstrip(s))

(***************************************************************************)
(* CodeReviewService._build_prompt                                         *)
(***************************************************************************)
Preamble == "<preamble>"

FilenameLabel == "Filename: "

LanguageLabel == "Language: "

NotesLabel == "Submitter notes: "

CodeLabel == "Code:\n"

\* The three backquotes that open and close the code block.
Fence == "<fence>"

filename_line(filename) ==
    IF Truthy(filename) THEN <<FilenameLabel>> \o filename \o <<NL>> ELSE <<>>

language_line(language) ==
    IF Truthy(language) THEN <<LanguageLabel>> \o language \o <<NL>> ELSE <<>>

notes_line(notes) ==
    IF Truthy(notes) THEN <<NotesLabel>> \o strip(notes) \o <<NL>> ELSE <<>>

build_prompt_notes_first(code, filename, language, notes) ==
    <<Preamble>>
        \o notes_line(notes) \o filename_line(filename) \o language_line(language)
        \o <<CodeLabel>>
        \o <<Fence>> \o Or(language, <<>>) \o <<NL>> \o strip(code) \o <<NL, Fence>>

_build_prompt(code, filename, language, notes) ==
    <<Preamble>>
        \o filename_line(filename) \o language_line(language) \o notes_line(notes)
        \o <<CodeLabel>>
        \o <<Fence>> \o Or(language, <<>>) \o <<NL>> \o strip(code) \o <<NL, Fence>>

build_prompt_call_validating(code, filename, language, notes) ==
    IF strip(code) = <<>>
    THEN [raised |-> <<[kind |-> "ValueError", msg |-> <<"No code provided for review.">>]>>,
          value |-> <<>>]
    ELSE [raised |-> <<>>, value |-> _build_prompt(code, filename, language, notes)]

\* A direct call of the builder: it has no raise statement.
BuildPromptCall(code, filename, language, notes) ==
    [raised |-> <<>>, value |-> _build_prompt(code, filename, language, notes)]

(***************************************************************************)
(* The builder applied to every bounded input.                             *)
(***************************************************************************)
Codes == TextsUpTo(MaxCodeLen)

OptTexts == {None} \cup TextsUpTo(MaxMetaLen)

NoEnv == [key |-> None, model |-> None]

InitPrompt ==
    /\ env = NoEnv
    /\ svc = <<>>
    /\ cache = <<>>
    /\ \E code \in Codes, filename \in OptTexts, language \in OptTexts, notes \in OptTexts :
          last = [op |-> "input", code |-> code, filename |-> filename,
                  language |-> language, notes |-> notes]

BuildPrompt ==
    /\ last.op = "input"
    /\ \E r \in {BuildPromptCall(last.code, last.filename, last.language, last.notes)} :
          last' = [op |-> "_build_prompt", code |-> last.code, filename |-> last.filename,
                   language |-> last.language, notes |-> last.notes,
                   raised |-> r.raised, prompt |-> r.value]
    /\ UNCHANGED <<env, svc, cache>>

NextPrompt == BuildPrompt

SpecPrompt == InitPrompt /\ [][NextPrompt]_vars

(***************************************************************************)
(* The process environment and the completion endpoint.                    *)
(***************************************************************************)
\* os.environ: ANTHROPIC_API_KEY and ANTHROPIC_MODEL, None when unset.
EnvKeys == {None, <<>>, <<"sk-env">>}

EnvModels == {None, <<>>, <<"model-env">>}

Environments == [key : EnvKeys, model : EnvModels]

\* os.getenv(name): the value, or None when unset.
getenv(value) == value

\* os.getenv(name, default): the default only when the variable is unset.
getenv_default(value, default) == IF value = None THEN default ELSE value

Exc(kind, msg) == [kind |-> kind, msg |-> msg]

\* Anthropic(api_key=...): the client is created, or the constructor raises.
ClientOutcomes == {[kind |-> "ok"], Exc("Exception", <<"client failed">>)}

TextBlock(text) == [type |-> "text", text |-> text]

Response(content, input_tokens, output_tokens, model) ==
    [content |-> content,
     usage |-> [input_tokens |-> input_tokens, output_tokens |-> output_tokens],
     model |-> model]

Responses ==
    {Response(<<>>, 10, 5, <<"model-a">>),
     Response(<<TextBlock(<<"OK">>)>>, 10, 5, <<"model-a">>),
     Response(<<TextBlock(<<"OK">>)>>, 0, 7, <<"model-b">>),
     Response(<<TextBlock(<<"first">>), TextBlock(<<"second">>)>>, 3, 0, <<"model-b">>)}

\* What client.messages.create does: returns a response, raises an APIError
\* (connection, status, timeout), or raises another exception.
Replies ==
    {[kind |-> "ok", response |-> r] : r \in Responses}
    \cup {Exc(k, m) : k \in {"APIError", "Exception"}, m \in {<<"e1">>, <<"e2">>}}

(***************************************************************************)
(* CodeReviewService                                                       *)
(***************************************************************************)
MissingKeyMsg == <<"ANTHROPIC_API_KEY is not set.">>

NoCodeMsg == <<"No code provided for review.">>

default_model == <<"claude-sonnet-4-5-20250929">>

SystemInstructions == "<system instructions>"

EmptyResponseText == <<"Claude returned an empty response.">>

init_client_before_key_check(api_key, model, environ, client) ==
    LET resolved_key == Or(api_key, getenv(environ.key))
    IN IF client.kind # "ok"
       THEN [raised |-> <<client>>, created |-> 0, self |-> <<>>]
       ELSE IF ~Truthy(resolved_key)
       THEN [raised |-> <<Exc("MissingAPIKeyError", MissingKeyMsg)>>, created |-> 1,
             self |-> <<>>]
       ELSE [raised |-> <<>>, created |-> 1,
             self |-> <<[client |-> [api_key |-> resolved_key],
                         model |-> Or(model, getenv_default(environ.model, default_model))]>>]

\* CodeReviewService.__init__: what it raises, how many clients it created,
\* and the constructed object.
__init__(api_key, model, environ, client) ==
    LET resolved_key == Or(api_key, getenv(environ.key))
    IN IF ~Truthy(resolved_key)
       THEN [raised |-> <<Exc("MissingAPIKeyError", MissingKeyMsg)>>, created |-> 0,
             self |-> <<>>]
       ELSE IF client.kind # "ok"
       THEN [raised |-> <<client>>, created |-> 0, self |-> <<>>]
       ELSE [raised |-> <<>>, created |-> 1,
             self |-> <<[client |-> [api_key |-> resolved_key],
                         model |-> Or(model, getenv_default(environ.model, default_model))]>>]

Request(self, prompt) ==
    [model |-> self.model, max_tokens |-> 2000, temperature |-> 0,
     system |-> SystemInstructions,
     messages |-> <<[role |-> "user", content |-> prompt]>>]

DispatchNotice == [title |-> "Claude Review"]

ErrorNotice(exc) == [title |-> "API Error", message |-> exc.msg]

CompleteNotice(metadata) == [title |-> "Review complete", metadata |-> metadata]

api_error_retried(request, exc) ==
    [raised |-> <<exc>>, calls |-> <<request, request>>,
     notices |-> <<DispatchNotice, ErrorNotice(exc)>>, results |-> <<>>]

api_error_unnoticed(request, exc) ==
    [raised |-> <<exc>>, calls |-> <<request>>,
     notices |-> <<DispatchNotice>>, results |-> <<>>]

\* except APIError: print the error panel and re-raise.
api_error(request, exc) ==
    [raised |-> <<exc>>, calls |-> <<request>>,
     notices |-> <<DispatchNotice, ErrorNotice(exc)>>, results |-> <<>>]

\* Any other exception of the call leaves review through no handler.
unhandled(request, exc) ==
    [raised |-> <<exc>>, calls |-> <<request>>,
     notices |-> <<DispatchNotice>>, results |-> <<>>]

completed_last_block(request, response) ==
    LET content == IF response.content # <<>>
                   THEN response.content[Len(response.content)].text
                   ELSE EmptyResponseText
        metadata == [input_tokens |-> response.usage.output_tokens,
                     output_tokens |-> response.usage.input_tokens,
                     model |-> response.model]
    IN [raised |-> <<>>, calls |-> <<request>>,
        notices |-> <<DispatchNotice, CompleteNotice(metadata)>>,
        results |-> <<[markdown |-> content, metadata |-> metadata]>>]

\* The call returned: the first block's text, the usage and the model.
completed(request, response) ==
    LET content == IF response.content # <<>> THEN response.content[1].text
                   ELSE EmptyResponseText
        metadata == [input_tokens |-> response.usage.input_tokens,
                     output_tokens |-> response.usage.output_tokens,
                     model |-> response.model]
    IN [raised |-> <<>>, calls |-> <<request>>,
        notices |-> <<DispatchNotice, CompleteNotice(metadata)>>,
        results |-> <<[markdown |-> content, metadata |-> metadata]>>]

\* The review after the input check: the one call and the handling of its reply.
dispatch(self, prompt, reply) ==
    IF reply.kind = "APIError" THEN api_error(Request(self, prompt), reply)
    ELSE IF reply.kind # "ok" THEN unhandled(Request(self, prompt), reply)
    ELSE completed(Request(self, prompt), reply.response)

review_rejects_empty_only(self, code, filename, language, notes, reply) ==
    IF code = <<>>
    THEN [raised |-> <<Exc("ValueError", NoCodeMsg)>>, calls |-> <<>>, notices |-> <<>>,
          results |-> <<>>]
    ELSE dispatch(self, _build_prompt(code, filename, language, notes), reply)

\* CodeReviewService.review: what it raises, the requests it sends, the notices
\* it prints and the (markdown, metadata) it returns.
review(self, code, filename, language, notes, reply) ==
    IF strip(code) = <<>>
    THEN [raised |-> <<Exc("ValueError", NoCodeMsg)>>, calls |-> <<>>, notices |-> <<>>,
          results |-> <<>>]
    ELSE dispatch(self, _build_prompt(code, filename, language, notes), reply)

(***************************************************************************)
(* The service used as a library: construction and review.                 *)
(***************************************************************************)
ReviewCodes == {<<>>, <<" ", NL>>, <<"x">>, <<" ", "x", " ">>}

Idle == [op |-> "idle"]

Init ==
    /\ env \in Environments
    /\ svc = <<>>
    /\ cache = <<>>
    /\ last = Idle

SetEnv ==
    /\ \E e \in Environments : env' = e
    /\ last' = Idle
    /\ UNCHANGED <<svc, cache>>

Construct ==
    \E api_key \in {None, <<>>, <<"sk-arg">>}, model \in {None, <<"model-arg">>},
       client \in ClientOutcomes :
        \E r \in {__init__(api_key, model, env, client)} :
           /\ svc' = IF r.raised = <<>> THEN r.self ELSE svc
           /\ last' = [op |-> "__init__", api_key |-> api_key, model |-> model,
                       raised |-> r.raised, created |-> r.created, self |-> r.self]
           /\ UNCHANGED <<env, cache>>

Review ==
    /\ svc # <<>>
    /\ \E code \in ReviewCodes, filename \in {None, <<"f">>}, language \in {None, <<"py">>},
          notes \in {None, <<" ", "n">>}, reply \in Replies :
        \E r \in {review(svc[1], code, filename, language, notes, reply)} :
           /\ last' = [op |-> "review", code |-> code, filename |-> filename,
                       language |-> language, notes |-> notes,
                       replies |-> IF r.calls = <<>> THEN <<>> ELSE <<reply>>,
                       raised |-> r.raised, calls |-> r.calls, notices |-> r.notices,
                       results |-> r.results]
           /\ UNCHANGED <<env, svc, cache>>

Next == SetEnv \/ Construct \/ Review

Spec == Init /\ [][Next]_vars

(***************************************************************************)
(* app.py: the cached reviewer and one run of main with the button clicked.*)
(***************************************************************************)
\* reviewer.get_reviewer: CodeReviewService() with no arguments.
get_reviewer(environ, client) == __init__(None, None, environ, client)

load_reviewer_uncached(cached, environ, client) ==
    LET r == get_reviewer(environ, client)
    IN [raised |-> r.raised, created |-> r.created, value |-> r.self,
        cache |-> IF r.raised = <<>> THEN r.self ELSE cached]

\* load_reviewer under st.cache_resource: the cached object when there is one,
\* else the value of get_reviewer(), cached unless the call raised.
load_reviewer(cached, environ, client) ==
    IF cached # <<>>
    THEN [raised |-> <<>>, created |-> 0, value |-> cached, cache |-> cached]
    ELSE LET r == get_reviewer(environ, client)
         IN [raised |-> r.raised, created |-> r.created, value |-> r.self,
             cache |-> IF r.raised = <<>> THEN r.self ELSE cached]

NoUpload == [name |-> None, text |-> None]

\* main, lines 35-41: the code and the file name of the submit.
Source(uploaded_file, pasted_code) ==
    IF uploaded_file # NoUpload
    THEN [source_code |-> uploaded_file.text, filename |-> uploaded_file.name]
    ELSE IF strip(pasted_code) # <<>>
    THEN [source_code |-> pasted_code, filename |-> None]
    ELSE [source_code |-> <<>>, filename |-> None]

Warning == [widget |-> "warning"]

Error(text) == [widget |-> "error", text |-> text]

Rendered(result) ==
    <<[widget |-> "success"],
      [widget |-> "markdown", text |-> result.markdown],
      [widget |-> "caption", metadata |-> result.metadata]>>

NoReview == [raised |-> <<>>, calls |-> <<>>, notices |-> <<>>, results |-> <<>>]

\* main, lines 49-77, with submit_clicked: what it shows, the exception that
\* leaves it, the cache afterwards, and what the reviewer did.
main(cached, environ, source_code, filename, language, notes, client, reply) ==
    IF strip(source_code) = <<>>
    THEN [ui |-> <<Warning>>, escaped |-> <<>>, cache |-> cached, created |-> 0,
          loads |-> 0, load_raised |-> <<>>, reviews |-> 0, review |-> NoReview]
    ELSE LET loaded == load_reviewer(cached, environ, client)
         IN IF loaded.raised # <<>> /\ loaded.raised[1].kind = "MissingAPIKeyError"
            THEN [ui |-> <<Error(loaded.raised[1].msg)>>, escaped |-> <<>>,
                  cache |-> loaded.cache, created |-> loaded.created,
                  loads |-> 1, load_raised |-> loaded.raised,
                  reviews |-> 0, review |-> NoReview]
            ELSE IF loaded.raised # <<>>
            THEN [ui |-> <<>>, escaped |-> loaded.raised,
                  cache |-> loaded.cache, created |-> loaded.created,
                  loads |-> 1, load_raised |-> loaded.raised,
                  reviews |-> 0, review |-> NoReview]
            ELSE LET r == review(loaded.value[1], source_code, filename, language, notes,
                                 reply)
                 IN [ui |-> IF r.raised # <<>>
                            THEN <<Error(<<"Review failed: ">> \o r.raised[1].msg)>>
                            ELSE Rendered(r.results[1]),
                     escaped |-> <<>>, cache |-> loaded.cache,
                     created |-> loaded.created, loads |-> 1, load_raised |-> <<>>,
                     reviews |-> 1, review |-> r]

Uploads == {NoUpload, [name |-> <<"f">>, text |-> <<NL>>], [name |-> <<"f">>, text |-> <<"x">>]}

Pasted == {<<>>, <<" ">>, <<"y", " ">>}

\* The sidebar's text_input and text_area return "" when left empty.
Sidebar == {[language |-> <<>>, notes |-> <<>>], [language |-> <<"py">>, notes |-> <<"n">>]}

Submit ==
    \E uploaded_file \in Uploads, pasted_code \in Pasted, side \in Sidebar,
       client \in ClientOutcomes, reply \in Replies :
        \E src \in {Source(uploaded_file, pasted_code)} :
        \E m \in {main(cache, env, src.source_code, src.filename, side.language, side.notes,
                       client, reply)} :
           /\ cache' = m.cache
           /\ last' = [op |-> "main", source_code |-> src.source_code,
                       filename |-> src.filename, language |-> side.language,
                       notes |-> side.notes, before |-> cache,
                       replies |-> IF m.review.calls = <<>> THEN <<>> ELSE <<reply>>,
                       ui |-> m.ui, escaped |-> m.escaped, created |-> m.created,
                       loads |-> m.loads, load_raised |-> m.load_raised,
                       reviews |-> m.reviews, raised |-> m.review.raised,
                       calls |-> m.review.calls, notices |-> m.review.notices,
                       results |-> m.review.results]
           /\ UNCHANGED <<env, svc>>

NextApp == SetEnv \/ Submit

SpecApp == Init /\ [][NextApp]_vars

(***************************************************************************)
(* Vocabulary of the properties, stated without the code's operators.      *)
(***************************************************************************)
IsBlank(s) == \A i \in 1..Len(s) : s[i] \in Whitespace

Solid(s) == {i \in 1..Len(s) : s[i] \notin Whitespace}

\* s without its leading and trailing whitespace, the interior as it is.
Trimmed(s) ==
    IF Solid(s) = {} THEN <<>>
    ELSE SubSeq(s, CHOOSE i \in Solid(s) : \A k \in Solid(s) : i <= k,
                   CHOOSE j \in Solid(s) : \A k \in Solid(s) : k <= j)

Count(p, token) == Cardinality({i \in 1..Len(p) : p[i] = token})

Index(p, token) == CHOOSE i \in 1..Len(p) : p[i] = token

EndsWith(p, suffix) ==
    /\ Len(suffix) <= Len(p)
    /\ SubSeq(p, Len(p) - Len(suffix) + 1, Len(p)) = suffix

Present(field) == field # None /\ Len(field) > 0

\* The label occurs once, followed by the value and the end of the line.
OneLine(p, label, value) ==
    /\ Count(p, label) = 1
    /\ Index(p, label) + Len(value) + 1 <= Len(p)
    /\ SubSeq(p, Index(p, label) + 1, Index(p, label) + Len(value) + 1) = value \o <<NL>>

MetaLine(p, label, field, value) ==
    IF Present(field) THEN OneLine(p, label, value) ELSE Count(p, label) = 0

InOrder(p, first, second) ==
    (Count(p, first) = 1 /\ Count(p, second) = 1) => Index(p, first) < Index(p, second)

Tag(language) == IF Present(language) THEN language ELSE <<>>

Built == last.op = "_build_prompt"

Reviewed == last.op = "review"

Submitted == last.op = "main"

InvalidInput == <<[kind |-> "ValueError", msg |-> NoCodeMsg]>>

MissingCredential == <<[kind |-> "MissingAPIKeyError", msg |-> MissingKeyMsg]>>

(***************************************************************************)
(* The properties.                                                         *)
(***************************************************************************)
\* C1: review of code that is empty or only whitespace raises the invalid-input
\* error, sends no request and returns no result, whatever filename, language
\* and notes are.
C1_BlankCodeRejected ==
    (Reviewed /\ IsBlank(last.code)) =>
        /\ last.raised = InvalidInput
        /\ last.calls = <<>>
        /\ last.results = <<>>

C1_Witness ==
    /\ Reviewed
    /\ last.code = <<" ", NL>>
    /\ last.filename # None /\ last.language # None /\ last.notes # None
    /\ last.raised = InvalidInput

\* C2: a submit that has to construct the service while the environment holds no
\* key, or an empty one, gets the missing-credential error before any client is
\* created and before any request; main shows it as an error message and never
\* calls review.
C2_MissingCredential ==
    (Submitted /\ ~IsBlank(last.source_code) /\ last.before = <<>> /\ ~Present(env.key)) =>
        /\ last.load_raised = MissingCredential
        /\ last.created = 0
        /\ last.calls = <<>>
        /\ last.ui = <<Error(MissingKeyMsg)>>
        /\ last.reviews = 0
        /\ last.escaped = <<>>
        /\ cache = <<>>

C2_Witness ==
    /\ Submitted
    /\ env.key = <<>>
    /\ last.load_raised = MissingCredential
    /\ last.ui = <<Error(MissingKeyMsg)>>

\* C3: a review that passes the input check sends exactly one request, also when
\* the call fails; a failed call's exception leaves review with its message and
\* no result is returned; a result is returned only for a call that returned.
C3_OneCallNoRetry ==
    Reviewed =>
        /\ (~IsBlank(last.code)) => Len(last.calls) = 1
        /\ Len(last.calls) <= 1
        /\ Len(last.replies) = Len(last.calls)
        /\ \A i \in 1..Len(last.replies) :
              last.replies[i].kind # "ok" =>
                  /\ last.raised = <<last.replies[i]>>
                  /\ last.results = <<>>
        /\ last.results # <<>> =>
              /\ Len(last.results) = 1
              /\ last.raised = <<>>
              /\ last.replies # <<>> /\ last.replies[1].kind = "ok"

C3_Witness ==
    /\ Reviewed
    /\ Len(last.calls) = 1
    /\ last.replies = <<[kind |-> "APIError", msg |-> <<"e2">>]>>
    /\ last.raised # <<>> /\ last.raised[1].msg = <<"e2">>
    /\ last.results = <<>>

\* C4: when the call returns, review returns the text of the first content block,
\* or the placeholder when there is no block, with the input tokens, output
\* tokens and model of the response; text OK with usage 10 and 5 gives OK, 10, 5.
C4_ResultFromResponse ==
    (Reviewed /\ last.replies # <<>> /\ last.replies[1].kind = "ok") =>
        LET response == last.replies[1].response
        IN /\ last.raised = <<>>
           /\ Len(last.results) = 1
           /\ last.results[1].markdown =
                 IF Len(response.content) = 0 THEN EmptyResponseText
                 ELSE Head(response.content).text
           /\ last.results[1].metadata.input_tokens = response.usage.input_tokens
           /\ last.results[1].metadata.output_tokens = response.usage.output_tokens
           /\ last.results[1].metadata.model = response.model
           /\ (response.content = <<TextBlock(<<"OK">>)>>
                 /\ response.usage = [input_tokens |-> 10, output_tokens |-> 5])
              => /\ last.results[1].markdown = <<"OK">>
                 /\ last.results[1].metadata.input_tokens = 10
                 /\ last.results[1].metadata.output_tokens = 5

C4_Witness ==
    /\ Reviewed
    /\ last.replies # <<>> /\ last.replies[1].kind = "ok"
    /\ Len(last.replies[1].response.content) = 2
    /\ last.results # <<>> /\ last.results[1].markdown = <<"first">>

\* C5 as claimed: the builder, called with code that is empty or only whitespace,
\* raises the invalid-input error instead of returning a prompt.
C5_BuilderRejectsBlank ==
    (Built /\ IsBlank(last.code)) => last.raised = InvalidInput

\* C5 amended: the builder does not validate; called with code that is empty or
\* only whitespace it raises nothing and returns a prompt whose fenced block is
\* empty.
C5_BuilderAcceptsBlank ==
    (Built /\ IsBlank(last.code)) =>
        /\ last.raised = <<>>
        /\ EndsWith(last.prompt,
                    <<CodeLabel, Fence>> \o Tag(last.language) \o <<NL, NL, Fence>>)

C5_Witness ==
    /\ Built
    /\ last.code = <<" ", NL>>
    /\ last.raised = <<>>
    /\ EndsWith(last.prompt, <<CodeLabel, Fence, NL, NL, Fence>>)

\* C6: the prompt has a line for filename, language and notes exactly when the
\* field is present and not empty, each such line once, in the order filename,
\* language, notes, all before the code block.
C6_MetadataLines ==
    Built =>
        /\ last.prompt[1] = Preamble
        /\ MetaLine(last.prompt, FilenameLabel, last.filename, last.filename)
        /\ MetaLine(last.prompt, LanguageLabel, last.language, last.language)
        /\ MetaLine(last.prompt, NotesLabel, last.notes, Trimmed(last.notes))
        /\ Count(last.prompt, CodeLabel) = 1
        /\ InOrder(last.prompt, FilenameLabel, LanguageLabel)
        /\ InOrder(last.prompt, FilenameLabel, NotesLabel)
        /\ InOrder(last.prompt, LanguageLabel, NotesLabel)
        /\ \A label \in {FilenameLabel, LanguageLabel, NotesLabel} :
              InOrder(last.prompt, label, CodeLabel)
        /\ Index(last.prompt, CodeLabel) < Index(last.prompt, Fence)

C6_Witness ==
    /\ Built
    /\ last.filename = <<"x">> /\ last.language = <<>> /\ last.notes = <<"x">>
    /\ Count(last.prompt, FilenameLabel) = 1
    /\ Count(last.prompt, LanguageLabel) = 0
    /\ Index(last.prompt, FilenameLabel) < Index(last.prompt, NotesLabel)

\* C7: for code that is not blank the prompt ends with the fenced block holding
\* the trimmed code, interior unchanged; the opening fence carries the language
\* when one is given and nothing otherwise.
C7_FencedCode ==
    (Built /\ ~IsBlank(last.code)) =>
        /\ EndsWith(last.prompt,
                    <<CodeLabel, Fence>> \o Tag(last.language) \o <<NL>>
                        \o Trimmed(last.code) \o <<NL, Fence>>)
        /\ Count(last.prompt, Fence) = 2

C7_Witness ==
    /\ Built
    /\ last.code = <<NL, "x", " ", "x">>
    /\ last.language = <<"x">>
    /\ EndsWith(last.prompt, <<CodeLabel, Fence, "x", NL, "x", " ", "x", NL, Fence>>)

\* C8: every submit ends in exactly one of a warning, an error message or a
\* rendered review with its caption, and no exception leaves main.
C8_AllErrorsShown ==
    Submitted =>
        /\ last.escaped = <<>>
        /\ \/ last.ui = <<Warning>>
           \/ Len(last.ui) = 1 /\ last.ui[1].widget = "error"
           \/ /\ Len(last.ui) = 3
              /\ last.ui[1].widget = "success"
              /\ last.ui[2].widget = "markdown"
              /\ last.ui[3].widget = "caption"

\* C9: a submit that finds a cached service reuses it: no service is constructed,
\* the cache is left as it was, and the request carries the model resolved at
\* construction, whatever the environment holds by then.
C9_ConfigurationResolvedOnce ==
    /\ (Submitted /\ last.before # <<>>) =>
          /\ cache = last.before
          /\ last.created = 0
          /\ last.load_raised = <<>>
          /\ \A i \in 1..Len(last.calls) : last.calls[i].model = last.before[1].model
    /\ (Submitted /\ last.before = <<>> /\ cache # <<>>) =>
          /\ cache[1].model = IF env.model = None THEN default_model ELSE env.model
          /\ \A i \in 1..Len(last.calls) : last.calls[i].model = cache[1].model

C9_Witness ==
    /\ Submitted
    /\ last.before # <<>>
    /\ last.calls # <<>>
    /\ env.model = <<"model-env">>
    /\ last.calls[1].model = default_model
    /\ ~Present(env.key)

\* C10 as claimed: every request is preceded by the progress notice and followed
\* by exactly one status notice, completion or failure, whatever the failure; a
\* rejected input gives no notice.
C10_StatusAfterEveryCall ==
    Reviewed =>
        /\ IsBlank(last.code) => last.notices = <<>>
        /\ last.calls # <<>> =>
              /\ Len(last.notices) = 2
              /\ last.notices[1] = DispatchNotice
              /\ last.notices[2].title =
                    IF last.replies[1].kind = "ok" THEN "Review complete" ELSE "API Error"

\* C10 amended: every request is preceded by the progress notice; it is followed
\* by the completion notice when the call returns, by the failure notice when
\* the call raises an APIError, and by no notice when it raises anything else; a
\* rejected input gives no notice.
C10_StatusNotices ==
    Reviewed =>
        /\ IsBlank(last.code) => last.notices = <<>>
        /\ last.calls # <<>> =>
              /\ last.notices # <<>> /\ last.notices[1] = DispatchNotice
              /\ last.replies[1].kind = "ok" =>
                    /\ Len(last.notices) = 2
                    /\ last.notices[2].title = "Review complete"
                    /\ last.notices[2].metadata = last.results[1].metadata
              /\ last.replies[1].kind = "APIError" =>
                    /\ Len(last.notices) = 2
                    /\ last.notices[2].title = "API Error"
                    /\ last.notices[2].message = last.replies[1].msg
              /\ last.replies[1].kind \notin {"ok", "APIError"} =>
                    last.notices = <<DispatchNotice>>

C10_Witness ==
    /\ Reviewed
    /\ last.calls # <<>>
    /\ last.replies[1].kind = "Exception"
    /\ last.notices = <<DispatchNotice>>

====
